---- MODULE Spec2Model ----
(***************************************************************************)
(* A model of packages/preset-uno/src/variants/mix.ts: the `mix` variant   *)
(* of preset-uno.  The variant recognises a class-token prefix             *)
(* mix-<mode>-<weight><separator>, and returns a handler whose body        *)
(* rewrites every colour-valued CSS entry by mixing it with white or black.*)
(*                                                                         *)
(* JavaScript strings are modelled as sequences of one-character strings,  *)
(* so that the regular expression, Number.parseFloat and the template     *)
(* literals of the source act on characters as they do in the program.     *)
(*                                                                         *)
(* JavaScript values are tagged records:                                   *)
(*   [t |-> "undefined"]                                                   *)
(*   [t |-> "str", s |-> <<chars>>]                                        *)
(*   [t |-> "num", n |-> integer]      [t |-> "nan"]                       *)
(*   [t |-> "color", type |-> "rgb", components |-> <<values>>,            *)
(*                   alpha |-> value]                 (a CSSColorValue)    *)
(***************************************************************************)
EXTENDS Integers, Sequences, FiniteSets, TLC

VARIABLES re, handler, op, args, result

vars == <<re, handler, op, args, result>>

----------------------------------------------------------------------------
(* JavaScript values *)

Undefined == [t |-> "undefined"]

NaN == [t |-> "nan"]

Str(s) == [t |-> "str", s |-> s]

Num(n) == [t |-> "num", n |-> n]

Color(type, components, alpha) ==
  [t |-> "color", type |-> type, components |-> components, alpha |-> alpha]

Digits == <<"0", "1", "2", "3", "4", "5", "6", "7", "8", "9">>

IsDigit(c) == \E d \in 1..10 : Digits[d] = c

DigitValue(c) == (CHOOSE d \in 1..10 : Digits[d] = c) - 1

RECURSIVE NatToText(_)
(* The decimal digits of a natural number, as Number::toString gives them. *)
NatToText(n) ==
  IF n < 10 THEN <<Digits[n + 1]>>
  ELSE NatToText(n \div 10) \o <<Digits[(n % 10) + 1]>>

(* Number::toString of an integer-valued number; -0 and 0 both give "0". *)
IntToText(n) == IF n < 0 THEN <<"-">> \o NatToText(-n) ELSE NatToText(n)

(* The text a template literal `${v}` interpolates for the value v. *)
ToText(v) ==
  CASE v.t = "str" -> v.s
    [] v.t = "num" -> IntToText(v.n)
    [] v.t = "nan" -> <<"N", "a", "N">>
    [] OTHER -> <<"u", "n", "d", "e", "f", "i", "n", "e", "d">>

RECURSIVE DigitRun(_, _)
(* The length of the longest run of decimal digits of s from position i. *)
DigitRun(s, i) ==
  IF i <= Len(s) /\ IsDigit(s[i]) THEN 1 + DigitRun(s, i + 1) ELSE 0

RECURSIVE DigitsValue(_, _, _)
(* The number the k digits of s from position i spell. *)
DigitsValue(s, i, k) ==
  IF k = 0 THEN 0
  ELSE 10 * DigitsValue(s, i, k - 1) + DigitValue(s[i + k - 1])

(* Number.parseFloat on a text without white space, ".", exponent or       *)
(* "Infinity": an optional sign and the longest run of digits after it are *)
(* read, whatever follows is ignored; no digit at all gives NaN.           *)
parseFloat(s) ==
  LET signed == Len(s) >= 1 /\ s[1] \in {"-", "+"}
      start  == IF signed THEN 2 ELSE 1
      k      == DigitRun(s, start)
      mag    == DigitsValue(s, start, k)
  IN  IF k = 0 THEN NaN
      ELSE Num(IF signed /\ s[1] = "-" THEN 0 - mag ELSE mag)

isNaN(v) == v.t = "nan"

----------------------------------------------------------------------------
(* The colour texts and colours of the model *)

Hex_fff == <<"#", "f", "f", "f">>

Hex_000 == <<"#", "0", "0", "0">>

Hex_336699 == <<"#", "3", "3", "6", "6", "9", "9">>

Txt_rgba == <<"r", "g", "b", "a", "(", "1", "0", ",", "2", "0", ",", "3", "0", ",", "0", ".", "5", ")">>

Txt_hsl == <<"h", "s", "l", "(", "0", ",", "0", "%", ",", "0", "%", ")">>

Txt_red500 == <<"r", "e", "d", "-", "5", "0", "0">>

(* @unocss/rule-utils parseCssColor on the colour texts of the model: a    *)
(* hex colour gives an rgb colour with numeric components and no alpha, a  *)
(* colour function gives its own type with textual components, anything    *)
(* else gives undefined.                                                   *)
parseCssColor(s) ==
  CASE s = Hex_fff -> Color("rgb", <<Num(255), Num(255), Num(255)>>, Undefined)
    [] s = Hex_000 -> Color("rgb", <<Num(0), Num(0), Num(0)>>, Undefined)
    [] s = Hex_336699 -> Color("rgb", <<Num(51), Num(102), Num(153)>>, Undefined)
    [] s = Txt_rgba ->
         Color("rgba", <<Str(<<"1", "0">>), Str(<<"2", "0">>), Str(<<"3", "0">>)>>,
               Str(<<"0", ".", "5">>))
    [] s = Txt_hsl ->
         Color("hsl", <<Str(<<"0">>), Str(<<"0", "%">>), Str(<<"0", "%">>)>>, Undefined)
    [] OTHER -> Undefined

TypeText(type) ==
  CASE type = "rgb" -> <<"r", "g", "b">>
    [] type = "rgba" -> <<"r", "g", "b", "a">>
    [] OTHER -> <<"h", "s", "l">>

RECURSIVE Join(_, _)
(* Array.prototype.join: the texts of ss with glue between them. *)
Join(ss, glue) ==
  IF Len(ss) = 0 THEN <<>>
  ELSE IF Len(ss) = 1 THEN ss[1]
  ELSE ss[1] \o glue \o Join(Tail(ss), glue)

(* @unocss/rule-utils colorToString: type(c1 c2 c3 / alpha) for the plain  *)
(* colour functions, type(c1, c2, c3, alpha) for rgba and hsla.            *)
colorToString(color) ==
  LET comps == [i \in 1..Len(color.components) |-> ToText(color.components[i])]
      legacy == color.type \in {"rgba", "hsla"}
      alpha == IF color.alpha = Undefined THEN <<>>
               ELSE (IF legacy THEN <<",", " ">> ELSE <<" ", "/", " ">>) \o ToText(color.alpha)
  IN  Str(TypeText(color.type) \o <<"(">>
          \o Join(comps, IF legacy THEN <<",", " ">> ELSE <<" ">>)
          \o alpha \o <<")">>)

----------------------------------------------------------------------------
(* The mixing engine, mix.ts lines 4-67 *)

(* mixComponent with the two colours' components exchanged *)
mixComponentSwapped(v1, v2, w) ==
  Str(<<"c", "a", "l", "c", "(">> \o ToText(v1) \o <<" ", "+", " ", "(">>
      \o ToText(v2) \o <<" ", "-", " ">> \o ToText(v1) \o <<")", " ", "*", " ">>
      \o ToText(w) \o <<" ", "/", " ", "1", "0", "0", ")">>)

(* `calc(${v2} + (${v1} - ${v2}) * ${w} / 100)` *)
mixComponent(v1, v2, w) ==
  Str(<<"c", "a", "l", "c", "(">> \o ToText(v2) \o <<" ", "+", " ", "(">>
      \o ToText(v1) \o <<" ", "-", " ">> \o ToText(v2) \o <<")", " ", "*", " ">>
      \o ToText(w) \o <<" ", "/", " ", "1", "0", "0", ")">>)

(* typeof colors[c] === 'string' ? parseCssColor(colors[c]) : colors[c] *)
Resolve(c) == IF c.t = "str" THEN parseCssColor(c.s) ELSE c

(* !color || !['rgb', 'rgba'].includes(color.type) *)
Rejected(color) == color = Undefined \/ color.type \notin {"rgb", "rgba"}

(* components[x], x counted from 0; undefined past the end of the array *)
At(components, x) ==
  IF x + 1 \in DOMAIN components THEN components[x + 1] ELSE Undefined

(* alpha ?? 1 *)
AlphaOr1(color) == IF color.alpha = Undefined THEN Num(1) ELSE color.alpha

(* mixColor giving its result the type of the second colour *)
mixColorKeepingType(color1, color2, weight) ==
  LET c1 == Resolve(color1)
      c2 == Resolve(color2)
  IN  IF Rejected(c1) THEN Undefined
      ELSE IF Rejected(c2) THEN Undefined
      ELSE Color(c2.type,
                 [x \in 1..3 |->
                    mixComponent(At(c1.components, x - 1), At(c2.components, x - 1), weight)],
                 mixComponent(AlphaOr1(c1), AlphaOr1(c2), weight))

mixColor(color1, color2, weight) ==
  LET c1 == Resolve(color1)
      c2 == Resolve(color2)
  IN  IF Rejected(c1) THEN Undefined
      ELSE IF Rejected(c2) THEN Undefined
      ELSE Color("rgb",
                 [x \in 1..3 |->
                    mixComponent(At(c1.components, x - 1), At(c2.components, x - 1), weight)],
                 mixComponent(AlphaOr1(c1), AlphaOr1(c2), weight))

tint(color, weight) == mixColor(Str(Hex_fff), color, weight)

shade(color, weight) == mixColor(Str(Hex_000), color, weight)

(* shift sending weight 0 to shade *)
shiftZeroToShade(color, weight) ==
  LET num == parseFloat(ToText(weight))
  IN  IF ~isNaN(num)
      THEN (IF num.n >= 0 THEN shade(color, weight) ELSE tint(color, Num(0 - num.n)))
      ELSE Undefined

shift(color, weight) ==
  LET num == parseFloat(ToText(weight))
  IN  IF ~isNaN(num)
      THEN (IF num.n > 0 THEN shade(color, weight) ELSE tint(color, Num(0 - num.n)))
      ELSE Undefined

fns(mode, color, weight) ==
  CASE mode = "tint" -> tint(color, weight)
    [] mode = "shade" -> shade(color, weight)
    [] mode = "shift" -> shift(color, weight)

----------------------------------------------------------------------------
(* The regular expression of match, mix.ts line 83:                        *)
(*   ^mix-(tint|shade|shift)-(-?\d{1,3})(?:${separators.join('|')})        *)
(* The separators are joined into the source as they are, so each          *)
(* character of a separator is read as pattern syntax.  The model reads    *)
(* "|" as alternation, "." as any character, "(" as the start of a group   *)
(* and every other character of its alphabet as a literal.                 *)

Txt_mix == <<"m", "i", "x", "-">>

ModeText(mode) ==
  CASE mode = "tint" -> <<"t", "i", "n", "t">>
    [] mode = "shade" -> <<"s", "h", "a", "d", "e">>
    [] mode = "shift" -> <<"s", "h", "i", "f", "t">>
    [] OTHER -> <<"t", "e", "a", "l">>

(* (tint|shade|shift), in the order the alternation tries them *)
Modes == <<"tint", "shade", "shift">>

(* The text lit stands in s from position pos on. *)
StartsAt(s, pos, lit) ==
  /\ pos + Len(lit) - 1 <= Len(s)
  /\ \A i \in 1..Len(lit) : s[pos + i - 1] = lit[i]

RECURSIVE SplitAlternatives(_)
(* The alternatives of a pattern source: its pieces between "|". *)
SplitAlternatives(src) ==
  IF \A i \in 1..Len(src) : src[i] # "|" THEN <<src>>
  ELSE LET bar == CHOOSE i \in 1..Len(src) :
                    src[i] = "|" /\ \A j \in 1..(i - 1) : src[j] # "|"
       IN  <<SubSeq(src, 1, bar - 1)>> \o SplitAlternatives(SubSeq(src, bar + 1, Len(src)))

(* new RegExp(source) throws a SyntaxError on an unterminated group: the   *)
(* alphabet of the model has "(" and no ")".                               *)
PatternCompiles(seps) ==
  \A i \in 1..Len(seps) : \A j \in 1..Len(seps[i]) : seps[i][j] # "("

(* The compiled pattern: what of it depends on the configuration. *)
RegExp(seps) == [t |-> "regexp", alternatives |-> SplitAlternatives(Join(seps, <<"|">>))]

(* One pattern character against one input character. *)
AtomMatches(atom, c) == atom = "." \/ atom = c

(* The alternative alt matches s from position pos on. *)
AlternativeMatches(alt, s, pos) ==
  /\ pos + Len(alt) - 1 <= Len(s)
  /\ \A i \in 1..Len(alt) : AtomMatches(alt[i], s[pos + i - 1])

(* (?:a|b|...) at pos: the length the first alternative that matches       *)
(* consumes, -1 when none matches.                                         *)
SeparatorLength(r, s, pos) ==
  LET hits == {a \in 1..Len(r.alternatives) : AlternativeMatches(r.alternatives[a], s, pos)}
  IN  IF hits = {} THEN 0 - 1
      ELSE Len(r.alternatives[CHOOSE a \in hits : \A b \in hits : a <= b])

(* String.prototype.match with the pattern r: undefined for null, or the   *)
(* length of m[0] with the groups m[1] and m[2].  \d{1,3} is greedy: it    *)
(* gives digits back one at a time until the separator group matches.      *)
exec(r, s) ==
  IF ~StartsAt(s, 1, Txt_mix) THEN Undefined
  ELSE
    LET found == {i \in 1..Len(Modes) : StartsAt(s, 5, ModeText(Modes[i]) \o <<"-">>)}
    IN  IF found = {} THEN Undefined
        ELSE
          LET mode == Modes[CHOOSE i \in found : TRUE]
              p    == 5 + Len(ModeText(mode)) + 1
              q    == IF p <= Len(s) /\ s[p] = "-" THEN p + 1 ELSE p
              run  == IF DigitRun(s, q) > 3 THEN 3 ELSE DigitRun(s, q)
              ks   == {k \in 1..run : SeparatorLength(r, s, q + k) >= 0}
          IN  IF ks = {} THEN Undefined
              ELSE LET k == CHOOSE k \in ks : \A j \in ks : j <= k
                   IN  [t |-> "match",
                        length |-> q + k - 1 + SeparatorLength(r, s, q + k),
                        m1 |-> mode,
                        m2 |-> SubSeq(s, p, q + k - 1)]

----------------------------------------------------------------------------
(* The body of a matched handler, mix.ts lines 89-101.  A CSS entry is a   *)
(* pair <<property, value>>; h holds m[1] and m[2] of the match that       *)
(* returned the handler.                                                   *)

(* JavaScript truthiness of an entry's value *)
Truthy(v) ==
  CASE v.t = "undefined" -> FALSE
    [] v.t = "nan" -> FALSE
    [] v.t = "str" -> v.s # <<>>
    [] v.t = "num" -> v.n # 0
    [] OTHER -> TRUE

(* The callback of body.forEach: the entry as the callback leaves it. *)
rewriteEntry(h, v) ==
  IF Truthy(v[2])
  THEN LET color == parseCssColor(ToText(v[2]))
       IN  IF color # Undefined
           THEN LET mixed == fns(h.mode, color, Str(h.weight))
                IN  IF mixed # Undefined THEN <<v[1], colorToString(mixed)>> ELSE v
           ELSE v
  ELSE v

RECURSIVE forEach(_, _, _)
(* body.forEach from entry i on: the entries are rewritten in place. *)
forEach(h, b, i) ==
  IF i > Len(b) THEN b
  ELSE forEach(h, [b EXCEPT ![i] = rewriteEntry(h, b[i])], i + 1)

(* body returning only the entries that have a value *)
bodyDroppingUnset(h, b) == SelectSeq(forEach(h, b, 1), LAMBDA v : Truthy(v[2]))

RECURSIVE forEachUntilFailure(_, _, _)
(* forEach leaving the loop at the first entry it cannot rewrite *)
forEachUntilFailure(h, b, i) ==
  IF i > Len(b) THEN b
  ELSE IF rewriteEntry(h, b[i]) = b[i] THEN b
  ELSE forEachUntilFailure(h, [b EXCEPT ![i] = rewriteEntry(h, b[i])], i + 1)

(* body giving up at the first entry it cannot rewrite *)
bodyAbortingOnFailure(h, b) == forEachUntilFailure(h, b, 1)

body(h, b) == forEach(h, b, 1)

----------------------------------------------------------------------------
(* Bounds and inputs *)

(* The longest list of CSS entries handed to a body. *)
MaxBody == 2

(* The separators of a configuration that sets none *)
DefaultSeparators == <<<<":">>, <<"-">>>>

(* The separator lists of the configurations a rule instance may meet; "." *)
(* and "(" are characters with a meaning in a pattern.                     *)
Configs ==
  {DefaultSeparators, <<<<":">>>>, <<<<"-", "-">>>>, <<<<".">>>>, <<<<"(">>>>}

TokenWeights == {<<>>, <<"3">>, <<"3", "0">>, <<"-", "3", "0">>, <<"3", "0", "0", "0">>}

Tails == {<<>>, <<"-">>, <<":", "x">>, <<"x">>, <<"-", "-", "x">>, <<".", "x">>}

(* Tokens of the shape mix-<mode>-<weight><tail>, and a few that are not *)
Tokens ==
  {Txt_mix \o ModeText(m) \o <<"-">> \o w \o tl :
     m \in {"shade", "shift"}, w \in TokenWeights, tl \in Tails}
    \cup {Txt_mix \o ModeText("tint") \o <<"-", "3", "0">> \o tl : tl \in Tails}
    \cup {Txt_mix \o ModeText("teal") \o <<"-", "3", "0", "-">>,
          <<"m", "a", "x", "-">> \o ModeText("shade") \o <<"-", "3", "0", "-">>,
          <<"x">> \o Txt_mix \o ModeText("shade") \o <<"-", "3", "0", "-">>,
          Txt_mix \o ModeText("shade") \o <<"3", "0", "-">>}

(* The property of the i-th entry of a list *)
PropertyAt(i) == IF i % 2 = 1 THEN "color" ELSE "background"

EntryValues ==
  {Undefined, Str(Hex_336699), Str(Txt_rgba), Str(Txt_hsl), Str(Txt_red500)}

Bodies ==
  UNION {{[i \in 1..n |-> <<PropertyAt(i), vs[i]>>] : vs \in [1..n -> EntryValues]} :
           n \in 0..MaxBody}

Rgb_336699 == Color("rgb", <<Num(51), Num(102), Num(153)>>, Undefined)

(* rgb(var(--c)): a colour function with a single component *)
Rgb_var == Color("rgb", <<Str(<<"v", "a", "r", "(", "-", "-", "c", ")">>)>>, Undefined)

Hsl_000 == Color("hsl", <<Str(<<"0">>), Str(<<"0", "%">>), Str(<<"0", "%">>)>>, Undefined)

ColorArgs ==
  {Str(Hex_336699), Str(Txt_rgba), Str(Txt_hsl), Str(Txt_red500), Rgb_336699, Rgb_var, Hsl_000}

WeightNums == {0 - 30, 0, 30, 100, 150}

WeightTexts ==
  {IntToText(n) : n \in WeightNums}
    \cup {<<"0", "3", "0">>, <<"1", "2", "a", "b", "c">>, <<"a", "b", "c">>, <<>>}

WeightArgs == {Num(n) : n \in WeightNums} \cup {Str(s) : s \in WeightTexts}

----------------------------------------------------------------------------
(* The state: re is the pattern cached in the closure of variantColorMix   *)
(* (undefined until the first match builds it); handler is what the last   *)
(* match call returned to its caller, if it returned a handler; op, args   *)
(* and result are the last call, its arguments and what it returned.       *)

Thrown == [t |-> "throw"]

Init ==
  /\ re = Undefined
  /\ handler = Undefined
  /\ op = "variantColorMix"
  /\ args = Undefined
  /\ result = Undefined

(* What match returns once the pattern r is at hand, lines 85-103. *)
matchWith(r, matcher) ==
  LET m == exec(r, matcher)
  IN  IF m # Undefined
      THEN [t |-> "handler",
            matcher |-> SubSeq(matcher, m.length + 1, Len(matcher)),
            mode |-> m.m1,
            weight |-> m.m2]
      ELSE Undefined

(* match(matcher, ctx), lines 81-104; separators is                        *)
(* ctx.generator.config.separators.  The pattern is built by the first     *)
(* call that finds none, and a SyntaxError of new RegExp leaves none.      *)
match(matcher, separators) ==
  /\ op' = "match"
  /\ args' = [matcher |-> matcher, separators |-> separators]
  /\ IF re = Undefined /\ ~PatternCompiles(separators)
     THEN /\ re' = re
          /\ result' = Thrown
          /\ handler' = Undefined
     ELSE LET r == IF re = Undefined THEN RegExp(separators) ELSE re
          IN  /\ re' = r
              /\ result' = matchWith(r, matcher)
              /\ handler' = matchWith(r, matcher)

(* The caller runs the body of the handler it holds on a list of entries. *)
callBody(b) ==
  /\ handler # Undefined
  /\ op' = "body"
  /\ args' = [body |-> b]
  /\ result' = body(handler, b)
  /\ UNCHANGED <<re, handler>>

callMixColor(color1, color2, weight) ==
  /\ op' = "mixColor"
  /\ args' = [color1 |-> color1, color2 |-> color2, weight |-> weight]
  /\ result' = mixColor(color1, color2, weight)
  /\ UNCHANGED <<re, handler>>

callTint(color, weight) ==
  /\ op' = "tint"
  /\ args' = [color |-> color, weight |-> weight]
  /\ result' = tint(color, weight)
  /\ UNCHANGED <<re, handler>>

callShade(color, weight) ==
  /\ op' = "shade"
  /\ args' = [color |-> color, weight |-> weight]
  /\ result' = shade(color, weight)
  /\ UNCHANGED <<re, handler>>

callShift(color, weight) ==
  /\ op' = "shift"
  /\ args' = [color |-> color, weight |-> weight]
  /\ result' = shift(color, weight)
  /\ UNCHANGED <<re, handler>>

MatchDefault == \E token \in Tokens : match(token, DefaultSeparators)

MatchConfigured == \E token \in Tokens, seps \in Configs : match(token, seps)

Body == \E b \in Bodies : callBody(b)

MixColor == \E c1 \in ColorArgs, c2 \in ColorArgs, w \in WeightArgs : callMixColor(c1, c2, w)

Tint == \E c \in ColorArgs, w \in WeightArgs : callTint(c, w)

Shade == \E c \in ColorArgs, w \in WeightArgs : callShade(c, w)

Shift == \E c \in ColorArgs, w \in WeightArgs : callShift(c, w)

(* One rule instance under the default configuration and the bodies of    *)
(* the handlers it returns.                                                *)
Next == MatchDefault \/ Body

Spec == Init /\ [][Next]_vars

(* One rule instance matched under any sequence of configurations. *)
NextMatch == MatchConfigured

SpecMatch == Init /\ [][NextMatch]_vars

(* The mixing functions applied to any colour and weight. *)
NextMix == MixColor \/ Tint \/ Shade \/ Shift

SpecMix == Init /\ [][NextMix]_vars

----------------------------------------------------------------------------
(* What the properties below are stated with *)

(* k decimal digits stand in s from position pos on. *)
DigitsAt(s, pos, k) ==
  /\ pos + k - 1 <= Len(s)
  /\ \A i \in 0..(k - 1) : IsDigit(s[pos + i])

(* The token is mix-<mode>-<weight><separator><rest>: the weight has       *)
(* sign-many "-" and k digits, the separator is the j-th of seps, read as  *)
(* plain text.                                                             *)
ShapedBy(token, seps, mode, sign, k, j) ==
  LET pre == Txt_mix \o ModeText(mode) \o <<"-">> \o [i \in 1..sign |-> "-"]
  IN  /\ StartsAt(token, 1, pre)
      /\ DigitsAt(token, Len(pre) + 1, k)
      /\ StartsAt(token, Len(pre) + k + 1, seps[j])

(* What the token has consumed in that shape *)
ShapeLength(seps, mode, sign, k, j) ==
  Len(Txt_mix) + Len(ModeText(mode)) + 1 + sign + k + Len(seps[j])

HasShape(token, seps) ==
  \E mode \in {"tint", "shade", "shift"}, sign \in 0..1, k \in 1..3, j \in 1..Len(seps) :
    ShapedBy(token, seps, mode, sign, k, j)

(* The value resolves to an rgb or rgba colour. *)
IsRgbFamily(c) ==
  LET r == IF c.t = "str" THEN parseCssColor(c.s) ELSE c
  IN  r.t = "color" /\ r.type \in {"rgb", "rgba"}

(* The texts that spell the integer n: its decimal digits, or these after  *)
(* one more leading zero.                                                  *)
TextsOf(n) ==
  {IntToText(n),
   (IF n < 0 THEN <<"-", "0">> ELSE <<"0">>) \o NatToText(IF n < 0 THEN 0 - n ELSE n)}

IsIntegerWeight(w) ==
  \/ w.t = "num"
  \/ w.t = "str" /\ \E n \in WeightNums : w.s \in TextsOf(n)

IntegerOf(w) ==
  IF w.t = "num" THEN w.n ELSE CHOOSE n \in WeightNums : w.s \in TextsOf(n)

(* The text is an optional "-" and then digits only. *)
IsNumberText(s) ==
  LET start == IF Len(s) >= 1 /\ s[1] = "-" THEN 2 ELSE 1
  IN  start <= Len(s) /\ \A i \in start..Len(s) : IsDigit(s[i])

(* An integer literal of s at position pos, and where it ends. *)
ReadInt(s, pos) ==
  LET neg   == pos <= Len(s) /\ s[pos] = "-"
      start == IF neg THEN pos + 1 ELSE pos
      k     == DigitRun(s, start)
  IN  [ok |-> k > 0,
       value |-> IF neg THEN 0 - DigitsValue(s, start, k) ELSE DigitsValue(s, start, k),
       next |-> start + k]

(* The text read back as calc(a + (b - c) * w / 100) with integers a, b,   *)
(* c and w.                                                                *)
ParseCalc(s) ==
  LET a == ReadInt(s, 6)
      b == ReadInt(s, a.next + 4)
      c == ReadInt(s, b.next + 3)
      w == ReadInt(s, c.next + 4)
  IN  [ok |-> /\ StartsAt(s, 1, <<"c", "a", "l", "c", "(">>)
              /\ a.ok /\ StartsAt(s, a.next, <<" ", "+", " ", "(">>)
              /\ b.ok /\ StartsAt(s, b.next, <<" ", "-", " ">>)
              /\ c.ok /\ StartsAt(s, c.next, <<")", " ", "*", " ">>)
              /\ w.ok /\ StartsAt(s, w.next, <<" ", "/", " ", "1", "0", "0", ")">>)
              /\ w.next + 6 = Len(s),
       a |-> a.value, b |-> b.value, c |-> c.value, w |-> w.value]

(* A hundred times what calc(a + (b - c) * w / 100) evaluates to *)
Times100(e) == 100 * e.a + (e.b - e.c) * e.w

(* The integer a component holds, as a number or as digits *)
IsIntegerComponent(v) ==
  \/ v.t = "num"
  \/ v.t = "str" /\ Len(v.s) > 0 /\ DigitRun(v.s, 1) = Len(v.s)

ComponentValue(v) == IF v.t = "num" THEN v.n ELSE DigitsValue(v.s, 1, Len(v.s))

(* The colour the mixing functions resolve the argument to *)
Resolved(c) == IF c.t = "str" THEN parseCssColor(c.s) ELSE c

HasIntegerComponents(c) ==
  /\ IsRgbFamily(c)
  /\ Len(Resolved(c).components) = 3
  /\ \A x \in 1..3 : IsIntegerComponent(Resolved(c).components[x])

----------------------------------------------------------------------------
(* Properties *)

(* C1: match returns a handler exactly when the token is mix-, a mode of   *)
(* tint, shade and shift, "-", an integer of 1 to 3 digits with an         *)
(* optional "-", and one of the separators of the configuration of the     *)
(* call.                                                                   *)
C1_MatchExactlyOnShape ==
  op = "match" =>
    ((result.t = "handler") <=> HasShape(args.matcher, args.separators))

(* C2: when match returns a handler, the token is the prefix               *)
(* mix-<mode>-<weight>, one separator of the configuration of the call and *)
(* the matcher of the handler, and nothing more has been consumed.         *)
C2_ConsumesPrefixAndOneSeparator ==
  (op = "match" /\ result.t = "handler") =>
    \E mode \in {"tint", "shade", "shift"}, sign \in 0..1, k \in 1..3,
       j \in 1..Len(args.separators) :
      /\ ShapedBy(args.matcher, args.separators, mode, sign, k, j)
      /\ Len(args.matcher) - Len(result.matcher)
           = ShapeLength(args.separators, mode, sign, k, j)
      /\ result.matcher
           = SubSeq(args.matcher, ShapeLength(args.separators, mode, sign, k, j) + 1,
                    Len(args.matcher))

(* C3: the body returns as many entries as it was given, in the same       *)
(* order and with the same properties.                                     *)
C3_BodyKeepsEntries ==
  op = "body" =>
    /\ Len(result) = Len(args.body)
    /\ \A i \in 1..Len(args.body) : result[i][1] = args.body[i][1]

(* C3 witness: a body has rewritten the second of two entries and kept the *)
(* first, which has no value.                                              *)
C3_Witness ==
  /\ op = "body"
  /\ Len(args.body) = 2
  /\ args.body[1][2] = Undefined
  /\ result[1] = args.body[1]
  /\ result[2][2] # args.body[2][2]

(* C4: the body keeps every entry whose value is absent or is no rgb or    *)
(* rgba colour, and replaces the value of every other entry by the         *)
(* serialized mixed colour, whatever the entries around it are.            *)
C4_FailedEntriesKeptOthersRewritten ==
  op = "body" =>
    \A i \in 1..Len(args.body) :
      LET v == args.body[i]
      IN  IF IsRgbFamily(v[2])
          THEN /\ result[i] = <<v[1], colorToString(fns(handler.mode, parseCssColor(v[2].s),
                                                         Str(handler.weight)))>>
               /\ result[i][2] # v[2]
               /\ StartsAt(result[i][2].s, 1, <<"r", "g", "b", "(", "c", "a", "l", "c", "(">>)
          ELSE result[i] = v

(* C4 witness: a body has kept an entry it cannot parse and rewritten the  *)
(* colour after it.                                                        *)
C4_Witness ==
  /\ op = "body"
  /\ Len(args.body) = 2
  /\ args.body[1][2] = Str(Txt_red500)
  /\ args.body[2][2] = Str(Hex_336699)
  /\ result[1] = args.body[1]
  /\ result[2][2] # args.body[2][2]

(* C5: every match call decides with the separators of the configuration   *)
(* passed in that call: it returns what a pattern built from them returns. *)
C5_UsesSeparatorsOfTheCall ==
  (op = "match" /\ PatternCompiles(args.separators)) =>
    result = matchWith(RegExp(args.separators), args.matcher)

(* C6: with the pattern built from the separators of the call, building    *)
(* does not fail and a token matches only if the weight is followed by the *)
(* exact text of one of the separators.                                    *)
C6_SeparatorsMatchedLiterally ==
  (op = "match" /\ (re = Undefined \/ re = RegExp(args.separators))) =>
    /\ result # Thrown
    /\ result.t = "handler" => HasShape(args.matcher, args.separators)

(* C7: shift returns shade(color, weight) for a weight above 0,            *)
(* tint(color, -weight) for a weight below 0 and tint(color, 0) for 0.     *)
C7_ShiftDelegatesOnSign ==
  (op = "shift" /\ IsIntegerWeight(args.weight)) =>
    LET n == IntegerOf(args.weight)
    IN  result = IF n > 0 THEN shade(args.color, args.weight)
                 ELSE IF n < 0 THEN tint(args.color, Num(0 - n))
                 ELSE tint(args.color, Num(0))

(* C7 witness: shift(#336699, "-30") has returned tint(#336699, 30). *)
C7_Witness ==
  /\ op = "shift"
  /\ args.color = Str(Hex_336699)
  /\ args.weight = Str(<<"-", "3", "0">>)
  /\ result # Undefined
  /\ result = tint(Str(Hex_336699), Num(30))

(* C8: mixColor returns a colour only when both arguments resolve to rgb   *)
(* or rgba colours, and then a colour of type rgb with 3 components and    *)
(* the alpha that mixes the two alphas, a missing one taken as 1.          *)
C8_MixColorResult ==
  (op = "mixColor" /\ result # Undefined) =>
    /\ IsRgbFamily(args.color1)
    /\ IsRgbFamily(args.color2)
    /\ result.type = "rgb"
    /\ Len(result.components) = 3
    /\ result.alpha # Undefined
    /\ LET a1 == Resolved(args.color1).alpha
           a2 == Resolved(args.color2).alpha
       IN  result.alpha = mixComponent(IF a1 = Undefined THEN Num(1) ELSE a1,
                                       IF a2 = Undefined THEN Num(1) ELSE a2,
                                       args.weight)

(* C8 witness: mixColor has mixed an rgba colour with a colour without     *)
(* alpha.                                                                  *)
C8_Witness ==
  /\ op = "mixColor"
  /\ args.color1 = Str(Txt_rgba)
  /\ args.color2 = Rgb_336699
  /\ result # Undefined

(* C9: every component of tint and shade reads back as                     *)
(* v2 + (v1 - v2) * w / 100 with v1 of white or black and v2 of the        *)
(* colour: it evaluates to the colour at weight 0, to white or black at    *)
(* weight 100, and beyond them for a weight outside 0..100.                *)
C9_TintShadeInterpolate ==
  (/\ op \in {"tint", "shade"}
   /\ HasIntegerComponents(args.color)
   /\ IsIntegerWeight(args.weight)) =>
    /\ result # Undefined
    /\ \A x \in 1..3 :
         LET e  == ParseCalc(result.components[x].s)
             c  == ComponentValue(Resolved(args.color).components[x])
             v1 == IF op = "tint" THEN 255 ELSE 0
             w  == IntegerOf(args.weight)
         IN  /\ e.ok
             /\ e.a = c /\ e.b = v1 /\ e.c = c /\ e.w = w
             /\ w = 0 => Times100(e) = 100 * c
             /\ w = 100 => Times100(e) = 100 * v1
             /\ Times100(e) = 100 * c + (v1 - c) * w

(* C9 witness: tint(#336699, 150) has returned a first component that      *)
(* evaluates to more than the 255 of white.                                *)
C9_Witness ==
  /\ op = "tint"
  /\ args.color = Str(Hex_336699)
  /\ args.weight = Num(150)
  /\ result # Undefined
  /\ Times100(ParseCalc(result.components[1].s)) > 25500

====
